---- MODULE Spec2Model ----
(***************************************************************************)
(* create_test_pngs.py: the generator of 30 RGBA test frames (a gradient   *)
(* that changes with the frame index, ten yellow 5x5 markers on top),      *)
(* each saved as simulation_videos/test_png_frames/frame_NNNN.png.         *)
(*                                                                         *)
(* The frame buffer holds 405*720 pixels that never influence one another  *)
(* (every store of the script writes one pixel from the loop indices       *)
(* alone), so the model follows the buffer at one pixel, the probe         *)
(* (px, py), which Init draws from a set of pixels.                        *)
(*                                                                         *)
(* The script computes the channel values and the marker positions in      *)
(* Python floats (IEEE-754 binary64, round to nearest, ties to even).      *)
(* TLC's integers have 32 bits, so a float is modelled as m * 2^e with the *)
(* significand m a natural number held in limbs of 15 bits.                *)
(***************************************************************************)
EXTENDS Integers, Sequences, FiniteSets, TLC

----------------------------------------------------------------------------
(* Natural numbers of any size: little-endian sequences of limbs in        *)
(* 0..Base-1 with no leading zero limb; <<>> is 0.                         *)

LimbBits == 15
Base == 32768

RECURSIVE Pow2(_)
Pow2(n) == IF n = 0 THEN 1 ELSE 2 * Pow2(n - 1)

RECURSIVE BNorm(_)
BNorm(a) ==
    IF a = <<>> THEN <<>>
    ELSE IF a[Len(a)] = 0 THEN BNorm(SubSeq(a, 1, Len(a) - 1))
    ELSE a

BFromInt(n) ==
    BNorm(<<n % Base, (n \div Base) % Base, n \div (Base * Base)>>)

RECURSIVE BToInt(_)
BToInt(a) == IF a = <<>> THEN 0 ELSE a[1] + Base * BToInt(Tail(a))

RECURSIVE BitLenInt(_)
BitLenInt(n) == IF n = 0 THEN 0 ELSE 1 + BitLenInt(n \div 2)

BBitLen(a) ==
    IF a = <<>> THEN 0 ELSE LimbBits * (Len(a) - 1) + BitLenInt(a[Len(a)])

BOdd(a) == a # <<>> /\ a[1] % 2 = 1

Limb(a, k) == IF k <= Len(a) THEN a[k] ELSE 0

RECURSIVE BAddC(_, _, _, _)
BAddC(a, b, k, carry) ==
    IF k > Len(a) /\ k > Len(b)
    THEN IF carry = 0 THEN <<>> ELSE <<carry>>
    ELSE LET t == Limb(a, k) + Limb(b, k) + carry
         IN  <<t % Base>> \o BAddC(a, b, k + 1, t \div Base)

BAdd(a, b) == BAddC(a, b, 1, 0)

\* a - b for a >= b
RECURSIVE BSubC(_, _, _, _)
BSubC(a, b, k, borrow) ==
    IF k > Len(a) THEN <<>>
    ELSE LET t == Limb(a, k) - Limb(b, k) - borrow
         IN  IF t < 0 THEN <<t + Base>> \o BSubC(a, b, k + 1, 1)
                      ELSE <<t>> \o BSubC(a, b, k + 1, 0)

BSub(a, b) == BNorm(BSubC(a, b, 1, 0))

\* a * d for 0 <= d < Base
RECURSIVE BMulSmallC(_, _, _, _)
BMulSmallC(a, d, k, carry) ==
    IF k > Len(a)
    THEN IF carry = 0 THEN <<>> ELSE <<carry>>
    ELSE LET t == a[k] * d + carry
         IN  <<t % Base>> \o BMulSmallC(a, d, k + 1, t \div Base)

BMulSmall(a, d) == IF d = 0 THEN <<>> ELSE BMulSmallC(a, d, 1, 0)

ZeroLimbs(n) == [k \in 1..n |-> 0]

RECURSIVE BMulFrom(_, _, _)
BMulFrom(a, b, j) ==
    IF j > Len(b) THEN <<>>
    ELSE BAdd(IF b[j] = 0 THEN <<>> ELSE ZeroLimbs(j - 1) \o BMulSmall(a, b[j]),
              BMulFrom(a, b, j + 1))

BMul(a, b) == IF a = <<>> \/ b = <<>> THEN <<>> ELSE BMulFrom(a, b, 1)

\* quotient and remainder of a by d, 0 < d < Base, from the top limb down
RECURSIVE BDivSmallC(_, _, _, _)
BDivSmallC(a, d, k, rem) ==
    IF k = 0 THEN [q |-> <<>>, r |-> rem]
    ELSE LET t    == rem * Base + a[k]
             rest == BDivSmallC(a, d, k - 1, t % d)
         IN  [q |-> rest.q \o <<t \div d>>, r |-> rest.r]

BDivSmall(a, d) ==
    LET res == BDivSmallC(a, d, Len(a), 0)
    IN  [q |-> BNorm(res.q), r |-> res.r]

\* a * 2^n
BShl(a, n) ==
    IF a = <<>> THEN <<>>
    ELSE ZeroLimbs(n \div LimbBits) \o BMulSmall(a, Pow2(n % LimbBits))

\* floor(a / 2^n), and whether a bit was shifted out
BShr(a, n) ==
    LET drop == n \div LimbBits
        keep == IF drop >= Len(a) THEN <<>> ELSE SubSeq(a, drop + 1, Len(a))
        low  == \E k \in 1..drop : k <= Len(a) /\ a[k] # 0
        res  == BDivSmall(keep, Pow2(n % LimbBits))
    IN  [q |-> res.q, lost |-> (low \/ res.r # 0)]

----------------------------------------------------------------------------
(* binary64 values m * 2^e, m >= 0 (no value of the script is negative,    *)
(* infinite, NaN or subnormal).                                            *)

Precision == 53

FZero == [m |-> <<>>, e |-> 0]

\* round m * 2^e to 53 significant bits, to nearest, ties to even
FRound(m, e) ==
    IF BBitLen(m) <= Precision THEN [m |-> m, e |-> e]
    ELSE LET s    == BBitLen(m) - Precision
             t    == BShr(m, s - 1)
             q    == BShr(t.q, 1).q
             half == BOdd(t.q)
             up   == half /\ (t.lost \/ BOdd(q))
         IN  [m |-> IF up THEN BAdd(q, <<1>>) ELSE q, e |-> e + s]

\* int -> float, exact for the script's operands (all below 2^53)
FFromInt(n) == [m |-> BFromInt(n), e |-> 0]

FMul(a, b) == FRound(BMul(a.m, b.m), a.e + b.e)

\* a / b for a divisor whose significand fits one limb (405, 720, 29, 30):
\* 2q+sticky keeps more than 55 bits of the quotient, so one rounding is exact
GuardBits == 72

FDiv(a, b) ==
    IF a.m = <<>> THEN FZero
    ELSE LET res == BDivSmall(BShl(a.m, GuardBits), b.m[1])
             m2  == BAdd(BMulSmall(res.q, 2), IF res.r = 0 THEN <<>> ELSE <<1>>)
         IN  FRound(m2, a.e - b.e - GuardBits - 1)

\* a - b for a >= b
FSub(a, b) ==
    LET e == IF a.e < b.e THEN a.e ELSE b.e
    IN  FRound(BSub(BShl(a.m, a.e - e), BShl(b.m, b.e - e)), e)

\* int(a): truncation (towards zero; a >= 0)
FInt(a) ==
    IF a.e >= 0 THEN BToInt(BShl(a.m, a.e)) ELSE BToInt(BShr(a.m, 0 - a.e).q)

----------------------------------------------------------------------------
(* The channel values and marker positions of create_test_frames.          *)

Width == 405
Height == 720
NumFrames == 30
NumAnts == 10
Frames == 0..(NumFrames - 1)
Cols == 0..(Width - 1)
Rows == 0..(Height - 1)

Ants == 0..(NumAnts - 1)
Offsets == (0 - 2)..2

\* f @@ NoEntries is f, tabulated: TLC then evaluates the body of f once for
\* every argument instead of once for every application
NoEntries == [n \in {} |-> 0]

\* the literal 0.8: the float nearest to 8/10
F08 == FDiv(FFromInt(8), FFromInt(10))

\* a mutant: the frame count, not the last index, as the divisor
TimeFactorBy30(idx) == FDiv(FFromInt(idx), FFromInt(30))

\* time_factor = i / 29.0
TimeFactor(idx) == FDiv(FFromInt(idx), FFromInt(29))

\* 1 - time_factor
Fade(idx) == FSub(FFromInt(1), TimeFactor(idx))

\* 255 * (x / width)
XScale(x) == FMul(FFromInt(255), FDiv(FFromInt(x), FFromInt(Width)))

\* 255 * (y / height)
YScale(y) == FMul(FFromInt(255), FDiv(FFromInt(y), FFromInt(Height)))

TimeFactorT == [idx \in Frames |-> TimeFactor(idx)] @@ NoEntries
FadeT == [idx \in Frames |-> Fade(idx)] @@ NoEntries
XScaleT == [x \in Cols |-> XScale(x)] @@ NoEntries
YScaleT == [y \in Rows |-> YScale(y)] @@ NoEntries

\* int(255 * (x / width) * (1 - time_factor))
Red(idx, x) == FInt(FMul(XScaleT[x], FadeT[idx]))

\* a mutant: the factor of time left out
GreenNoTime(idx, y) == FInt(YScaleT[y])

\* int(255 * (y / height) * time_factor)
Green(idx, y) == FInt(FMul(YScaleT[y], TimeFactorT[idx]))

\* a mutant: 256 levels instead of the top level 255
Blue256(idx) == FInt(FMul(FFromInt(256), TimeFactorT[idx]))

\* int(255 * time_factor)
Blue(idx) == FInt(FMul(FFromInt(255), TimeFactorT[idx]))

\* a mutant: the markers travel the full width, not 0.8 of it
AntXFullWidth(idx, a) ==
    FInt(FDiv(FMul(FFromInt(Width), FFromInt((idx + a * 3) % 30)),
              FFromInt(30))) + 50

\* int((width * 0.8) * ((i + ant * 3) % 30) / 30) + 50
AntX(idx, a) ==
    FInt(FDiv(FMul(FMul(FFromInt(Width), F08), FFromInt((idx + a * 3) % 30)),
              FFromInt(30))) + 50

\* int((height * 0.8) * ((i + ant * 2) % 30) / 30) + 50
AntY(idx, a) ==
    FInt(FDiv(FMul(FMul(FFromInt(Height), F08), FFromInt((idx + a * 2) % 30)),
              FFromInt(30))) + 50

RedT == [idx \in Frames |-> [x \in Cols |-> Red(idx, x)] @@ NoEntries] @@ NoEntries
GreenT == [idx \in Frames |-> [y \in Rows |-> Green(idx, y)] @@ NoEntries] @@ NoEntries
BlueT == [idx \in Frames |-> Blue(idx)] @@ NoEntries
AntXT == [idx \in Frames |-> [a \in Ants |-> AntX(idx, a)] @@ NoEntries] @@ NoEntries
AntYT == [idx \in Frames |-> [a \in Ants |-> AntY(idx, a)] @@ NoEntries] @@ NoEntries

\* a store into the uint8 buffer keeps the low 8 bits
U8(v) == v % 256

NoFrame == <<>>
Yellow == <<U8(255), U8(255), U8(0), U8(255)>>

\* np.zeros((height, width, 4), dtype=np.uint8), at one pixel
ZeroPixel == <<0, 0, 0, 0>>

\* a mutant: the store of line 35 left out
GradientPixelNoAlpha(idx, x, y) ==
    <<U8(RedT[idx][x]), U8(GreenT[idx][y]), U8(BlueT[idx]), 0>>

\* the four stores of the y/x loop nest at pixel (x, y)
GradientPixel(idx, x, y) ==
    <<U8(RedT[idx][x]), U8(GreenT[idx][y]), U8(BlueT[idx]), U8(255)>>

\* 0 <= ant_x + dx < width and 0 <= ant_y + dy < height
InBounds(x, y) == 0 <= x /\ x < Width /\ 0 <= y /\ y < Height

\* a mutant: the marker colour in the channel order B, G, R, A
DrawAntBGR(p, idx, a, x, y) ==
    IF \E dy \in Offsets : \E dx \in Offsets :
          /\ AntXT[idx][a] + dx = x
          /\ AntYT[idx][a] + dy = y
          /\ InBounds(x, y)
    THEN <<U8(0), U8(255), U8(255), U8(255)>>
    ELSE p

\* the dy/dx loops of marker ant, seen at pixel (x, y) holding p: the pixel
\* is overwritten when some offset (dx, dy) passes the bounds check and lands
\* on it
DrawAnt(p, idx, a, x, y) ==
    LET ant_x == AntXT[idx][a]
        ant_y == AntYT[idx][a]
    IN  IF \E dy \in Offsets :
              /\ ant_y + dy = y
              /\ \E dx \in Offsets :
                    /\ ant_x + dx = x
                    /\ InBounds(ant_x + dx, ant_y + dy)
        THEN Yellow
        ELSE p

\* the offsets of marker ant that the bounds check rejects
Clipped(idx, a) ==
    LET ant_x == AntXT[idx][a]
        ant_y == AntYT[idx][a]
    IN  Cardinality({o \in Offsets \X Offsets :
                        ~InBounds(ant_x + o[1], ant_y + o[2])})

\* a mutant: the files numbered from 1
FileNameOneBased(idx) ==
    <<"frame_", ((idx + 1) \div 1000) % 10, ((idx + 1) \div 100) % 10,
      ((idx + 1) \div 10) % 10, (idx + 1) % 10, ".png">>

\* f"frame_{i:04d}.png"
FileName(idx) ==
    <<"frame_", (idx \div 1000) % 10, (idx \div 100) % 10, (idx \div 10) % 10,
      idx % 10, ".png">>

\* a mutant: a file that exists is not written again
WriteFileKeep(d, name, content) ==
    IF name \in DOMAIN d THEN d
    ELSE [n \in (DOMAIN d) \cup {name} |-> IF n = name THEN content ELSE d[n]]

\* img.save(path): the file at path holds the frame, whatever it held before
WriteFile(d, name, content) ==
    [n \in (DOMAIN d) \cup {name} |-> IF n = name THEN content ELSE d[n]]

EmptyDisk == [n \in {} |-> NoFrame]

----------------------------------------------------------------------------
(* The run of the script as a state machine.                               *)

\* how many times the script is run in a row
MaxRuns == 2

\* the pixels the run is followed at: corners, marker pixels of frame 0
\* (ant 0 at (50,50), ant 1 at (82,88)), gradient pixels
ProbeSet ==
    {<<0, 0>>, <<404, 719>>, <<50, 50>>, <<48, 52>>, <<82, 88>>, <<145, 300>>}

\* what the target directory may hold before a run: it does not exist, or it
\* holds the files of another generator (31 files of another content)
StalePixel == <<1, 2, 3, 4>>
StaleDisk == [n \in {FileName(j) : j \in 0..NumFrames} |-> StalePixel]
EnvStates ==
    {[dir |-> FALSE, files |-> EmptyDisk], [dir |-> TRUE, files |-> StaleDisk]}

\* what a failed save leaves at its path: nothing new, or a truncated file
Truncated == <<"truncated">>

VARIABLES
    pc,         \* the statement the run is at
    i,          \* the loop variable of line 19 (-1 before the loop)
    ant,        \* the loop variable of line 38
    frame,      \* the buffer `frame` at the probe pixel
    px, py,     \* the probe pixel (column, row)
    dirExists,  \* simulation_videos/test_png_frames exists
    disk,       \* file name -> content (at the probe pixel) of the directory
    prev,       \* the directory as the previous complete run left it
    log,        \* the events of this run, in order
    clipped,    \* marker offsets rejected by the bounds check in this run
    run         \* the number of this run

vars == <<pc, i, ant, frame, px, py, dirExists, disk, prev, log, clipped, run>>

Init ==
    /\ pc = "start"
    /\ i = 0 - 1
    /\ ant = 0
    /\ frame = NoFrame
    /\ \E p \in ProbeSet : px = p[1] /\ py = p[2]
    /\ \E env \in EnvStates : dirExists = env.dir /\ disk = env.files
    /\ prev = EmptyDisk
    /\ log = <<>>
    /\ clipped = 0
    /\ run = 1

\* line 13: os.makedirs(frames_dir, exist_ok=True)
MakeDirsOk ==
    /\ pc = "start"
    /\ pc' = "for"
    /\ dirExists' = TRUE
    /\ log' = Append(log, <<"makedirs">>)
    /\ UNCHANGED <<i, ant, frame, px, py, disk, prev, clipped, run>>

\* line 13 raises (the directory is absent and cannot be created)
MakeDirsFail ==
    /\ pc = "start"
    /\ ~dirExists
    /\ pc' = "raised"
    /\ log' = Append(log, <<"error">>)
    /\ UNCHANGED <<i, ant, frame, px, py, dirExists, disk, prev, clipped, run>>

\* line 19: for i in range(30), the next index
ForNext ==
    /\ pc = "for"
    /\ i + 1 < NumFrames
    /\ i' = i + 1
    /\ pc' = "zeros"
    /\ UNCHANGED <<ant, frame, px, py, dirExists, disk, prev, log, clipped, run>>

\* line 19: the range is exhausted
ForExit ==
    /\ pc = "for"
    /\ i + 1 >= NumFrames
    /\ pc' = "done"
    /\ UNCHANGED <<i, ant, frame, px, py, dirExists, disk, prev, log, clipped, run>>

\* line 21: frame = np.zeros(...)
NewFrame ==
    /\ pc = "zeros"
    /\ frame' = ZeroPixel
    /\ pc' = "gradient"
    /\ UNCHANGED <<i, ant, px, py, dirExists, disk, prev, log, clipped, run>>

\* lines 24-35: the gradient loops; they store once at every pixel
Gradient ==
    /\ pc = "gradient"
    /\ frame' = GradientPixel(i, px, py)
    /\ ant' = 0
    /\ pc' = "ants"
    /\ UNCHANGED <<i, px, py, dirExists, disk, prev, log, clipped, run>>

\* lines 38-46: one marker
DrawAntStep ==
    /\ pc = "ants"
    /\ ant < NumAnts
    /\ frame' = DrawAnt(frame, i, ant, px, py)
    /\ clipped' = clipped + Clipped(i, ant)
    /\ ant' = ant + 1
    /\ UNCHANGED <<pc, i, px, py, dirExists, disk, prev, log, run>>

\* line 38: the markers are drawn
AntsDone ==
    /\ pc = "ants"
    /\ ant >= NumAnts
    /\ pc' = "save"
    /\ UNCHANGED <<i, ant, frame, px, py, dirExists, disk, prev, log, clipped, run>>

\* lines 49-50: Image.fromarray(frame, 'RGBA').save(...)
SaveOk ==
    /\ pc = "save"
    /\ dirExists
    /\ disk' = WriteFile(disk, FileName(i), frame)
    /\ log' = Append(log, <<"save", FileName(i), frame>>)
    /\ pc' = "print"
    /\ UNCHANGED <<i, ant, frame, px, py, dirExists, prev, clipped, run>>

\* a mutant: the error of line 50 is caught and the loop goes on
SaveFailSwallowed ==
    /\ pc = "save"
    /\ \/ disk' = disk
       \/ disk' = WriteFile(disk, FileName(i), Truncated)
    /\ log' = Append(log, <<"error">>)
    /\ pc' = "print"
    /\ UNCHANGED <<i, ant, frame, px, py, dirExists, prev, clipped, run>>

\* line 50 raises (permission, disk full): nothing catches it
SaveFail ==
    /\ pc = "save"
    /\ \/ disk' = disk
       \/ disk' = WriteFile(disk, FileName(i), Truncated)
    /\ log' = Append(log, <<"error">>)
    /\ pc' = "raised"
    /\ UNCHANGED <<i, ant, frame, px, py, dirExists, prev, clipped, run>>

\* a mutant: the completion notice of line 53 indented into the loop
PrintFrameAndDone ==
    /\ pc = "print"
    /\ log' = log \o <<<<"print", FileName(i)>>, <<"done", 30>>>>
    /\ pc' = "for"
    /\ UNCHANGED <<i, ant, frame, px, py, dirExists, disk, prev, clipped, run>>

\* line 51: print(f"Created frame_{i:04d}.png")
PrintFrame ==
    /\ pc = "print"
    /\ log' = Append(log, <<"print", FileName(i)>>)
    /\ pc' = "for"
    /\ UNCHANGED <<i, ant, frame, px, py, dirExists, disk, prev, clipped, run>>

\* lines 53-54: the completion notice, return
PrintDone ==
    /\ pc = "done"
    /\ log' = Append(log, <<"done", 30>>)
    /\ pc' = "returned"
    /\ UNCHANGED <<i, ant, frame, px, py, dirExists, disk, prev, clipped, run>>

\* lines 56-57: the script is run again after a complete run, on the
\* directory as it is or as the environment has made it meanwhile
Rerun ==
    /\ pc = "returned"
    /\ run < MaxRuns
    /\ run' = run + 1
    /\ prev' = disk
    /\ \/ UNCHANGED <<dirExists, disk>>
       \/ \E env \in EnvStates : dirExists' = env.dir /\ disk' = env.files
    /\ pc' = "start"
    /\ i' = 0 - 1
    /\ ant' = 0
    /\ frame' = NoFrame
    /\ log' = <<>>
    /\ clipped' = 0
    /\ UNCHANGED <<px, py>>

Next ==
    \/ MakeDirsOk
    \/ MakeDirsFail
    \/ ForNext
    \/ ForExit
    \/ NewFrame
    \/ Gradient
    \/ DrawAntStep
    \/ AntsDone
    \/ SaveOk
    \/ SaveFail
    \/ PrintFrame
    \/ PrintDone
    \/ Rerun

Spec == Init /\ [][Next]_vars

----------------------------------------------------------------------------
(* One iteration of the loop of line 19 at a time: the frame of index i    *)
(* is a function of i alone, drawn here for every i at many more pixels    *)
(* than a whole run can be followed at.  The iteration starts in the state *)
(* the first run, started without the directory, is in at line 21.         *)

\* the probes of an iteration cover every row and every column (along
\* NumDiagonals diagonals) and every pixel of every marker of the frame
NumDiagonals == 1
GridProbes ==
    {<<(y + d * (Width \div 2)) % Width, y>> :
        y \in Rows, d \in 0..(NumDiagonals - 1)}
MarkerProbes(f) ==
    {p \in {<<AntXT[f][a] + o[1], AntYT[f][a] + o[2]>> :
               a \in Ants, o \in Offsets \X Offsets} : InBounds(p[1], p[2])}

\* lines 21-46 at pixel (x, y): the buffer after the first n markers
RECURSIVE DrawAnts(_, _, _, _)
DrawAnts(f, n, x, y) ==
    IF n = 0 THEN GradientPixel(f, x, y)
    ELSE DrawAnt(DrawAnts(f, n - 1, x, y), f, n - 1, x, y)

FramePixel(f, x, y) == DrawAnts(f, NumAnts, x, y)

\* the directory and the events after the iterations 0..f-1, given the
\* frames r they drew
RECURSIVE DiskAfter(_, _)
DiskAfter(f, r) ==
    IF f = 0 THEN EmptyDisk
    ELSE WriteFile(DiskAfter(f - 1, r), FileName(f - 1), r[f - 1])

RECURSIVE LogAfter(_, _)
LogAfter(f, r) ==
    IF f = 0 THEN <<<<"makedirs">>>>
    ELSE LogAfter(f - 1, r)
            \o <<<<"save", FileName(f - 1), r[f - 1]>>,
                 <<"print", FileName(f - 1)>>>>

\* the offsets rejected while the first n markers of frame f are drawn, and
\* in the iterations 0..f-1
RECURSIVE ClippedInFrame(_, _)
ClippedInFrame(f, n) ==
    IF n = 0 THEN 0 ELSE ClippedInFrame(f, n - 1) + Clipped(f, n - 1)

ClippedInFrameT ==
    [f \in Frames |-> ClippedInFrame(f, NumAnts)] @@ NoEntries

RECURSIVE ClippedAfter(_)
ClippedAfter(f) ==
    IF f = 0 THEN 0 ELSE ClippedAfter(f - 1) + ClippedInFrameT[f - 1]

ClippedT == [f \in Frames |-> ClippedAfter(f)] @@ NoEntries

\* the frames the iterations 0..f-1 drew at pixel p
FramesBefore(f, p) ==
    [j \in 0..(f - 1) |-> FramePixel(j, p[1], p[2])] @@ NoEntries

\* the state at line 21 of iteration f, followed at pixel p, the earlier
\* iterations having drawn the frames r
Line21(f, p, r) ==
    /\ pc = "zeros"
    /\ i = f
    /\ ant = IF f = 0 THEN 0 ELSE NumAnts
    /\ frame = IF f = 0 THEN NoFrame ELSE r[f - 1]
    /\ px = p[1]
    /\ py = p[2]
    /\ dirExists = TRUE
    /\ disk = DiskAfter(f, r)
    /\ prev = EmptyDisk
    /\ log = LogAfter(f, r)
    /\ clipped = ClippedT[f]
    /\ run = 1

InitFrame ==
    \E f \in Frames : \E p \in GridProbes \cup MarkerProbes(f) :
        Line21(f, p, FramesBefore(f, p))

NextFrame ==
    \/ NewFrame
    \/ Gradient
    \/ DrawAntStep
    \/ AntsDone
    \/ SaveOk
    \/ SaveFail
    \/ PrintFrame

SpecFrame == InitFrame /\ [][NextFrame]_vars

\* the states InitFrame describes are the states of the run at line 21
AtLine21 ==
    (pc = "zeros" /\ run = 1 /\ log[1] = <<"makedirs">> /\ Len(log) = 1 + 2 * i
        /\ DOMAIN disk = {FileName(j) : j \in 0..(i - 1)})
    => Line21(i, <<px, py>>, FramesBefore(i, <<px, py>>))

----------------------------------------------------------------------------
(* The claims.  They name files, marker positions and channel values by   *)
(* their own arithmetic over the integers, not by the operators above.     *)

\* frame_0000.png ... frame_0029.png
ClaimName(j) == <<"frame_", 0, 0, j \div 10, j % 10, ".png">>

\* the event at position k of a complete run: the directory, then for
\* every frame its file and its notice, then the completion notice
ClaimEvent(k) ==
    IF k = 1 THEN <<"makedirs">>
    ELSE IF k = 62 THEN <<"done", 30>>
    ELSE IF k % 2 = 0 THEN <<"save", ClaimName((k - 2) \div 2)>>
    ELSE <<"print", ClaimName((k - 3) \div 2)>>

\* an event without the content it wrote
Kind(e) == IF e[1] = "save" THEN <<e[1], e[2]>> ELSE e

SavesOf(name) == {k \in DOMAIN log : log[k][1] = "save" /\ log[k][2] = name}

\* C1: after a run in which no write failed, frame_0000.png ... frame_0029.png
\* were each written exactly once, nothing else was written (30 writes), and
\* the 30 files exist
C1_ExactlyThirtyFiles ==
    pc = "returned" =>
        /\ \A j \in 0..29 :
              /\ Cardinality(SavesOf(ClaimName(j))) = 1
              /\ ClaimName(j) \in DOMAIN disk
        /\ Cardinality({k \in DOMAIN log : log[k][1] = "save"}) = 30

C1_Witness == pc = "returned" /\ Len(log) = 62 /\ SavesOf(ClaimName(29)) = {60}

\* C6: a complete run leaves in every frame file what the complete run
\* before it left there, whatever the directory held when either started;
\* the content of frame i is FramePixel(i), a function of i alone
C6_Deterministic ==
    /\ (pc = "returned" /\ run >= 2) =>
          \A j \in 0..29 : disk[ClaimName(j)] = prev[ClaimName(j)]
    /\ pc = "print" => disk[ClaimName(i)] = FramePixel(i, px, py)

\* a second run that started from another directory than the first one left
C6_Witness ==
    /\ pc = "returned"
    /\ run = 2
    /\ DOMAIN prev # DOMAIN disk
    /\ disk[ClaimName(0)] # disk[ClaimName(29)]

\* C7: once directory creation or the write of frame k has failed, the run
\* has stopped: the error is the last event and the only one of its kind,
\* what precedes it is the directory, the files and the notices of the frames
\* 0..k-1 and nothing else (no file beyond k, no notice for k, no completion
\* notice), the files of the frames 0..k-1 hold what was written, and no step
\* of the run follows
C7_FailStops ==
    (\E k \in DOMAIN log : log[k] = <<"error">>) =>
        /\ pc = "raised"
        /\ ~ENABLED Next
        /\ log[Len(log)] = <<"error">>
        /\ Len(log) = IF i < 0 THEN 1 ELSE 2 * i + 2
        /\ \A k \in 1..(Len(log) - 1) : Kind(log[k]) = ClaimEvent(k)
        /\ \A j \in 0..(i - 1) : disk[ClaimName(j)] = log[2 * j + 2][3]

\* the write of frame 3 failed and left a truncated file
C7_Witness ==
    /\ pc = "raised"
    /\ i = 3
    /\ ClaimName(3) \in DOMAIN disk
    /\ disk[ClaimName(3)] = Truncated
    /\ disk[ClaimName(2)] = FramePixel(2, px, py)

\* C8: the events of a run come in one order: the directory (which exists
\* from then on), then file 0, notice 0, file 1, notice 1, ..., file 29,
\* notice 29, then the completion notice, once, and the run has returned
\* exactly when the completion notice is out
C8_TotalOrder ==
    /\ Len(log) <= 62
    /\ \A k \in DOMAIN log :
          \/ Kind(log[k]) = ClaimEvent(k)
          \/ k = Len(log) /\ log[k] = <<"error">>
    /\ (log # <<>> /\ log[1] = <<"makedirs">>) => dirExists
    /\ pc = "returned" <=> (Len(log) = 62 /\ log[62] = <<"done", 30>>)
    /\ pc = "returned" => ~(ENABLED (Next /\ run' = run))

C8_Witness ==
    /\ pc = "returned"
    /\ log[60] = <<"save", ClaimName(29), disk[ClaimName(29)]>>
    /\ log[61] = <<"print", ClaimName(29)>>
    /\ log[62] = <<"done", 30>>

\* C9 as stated: some marker offset of a run falls outside the frame, so the
\* bounds check has rejected at least one offset when the run completes
C9_SomeMarkerClipped == pc = "returned" => clipped > 0

\* C9 amended: the bounds check never rejects an offset: every marker of
\* every frame lies inside the frame with all its 25 pixels
C9_NoMarkerClipped ==
    /\ clipped = 0
    /\ (pc = "ants" /\ ant < NumAnts) =>
          \A dx \in (0 - 2)..2 : \A dy \in (0 - 2)..2 :
              /\ 0 <= AntXT[i][ant] + dx /\ AntXT[i][ant] + dx < 405
              /\ 0 <= AntYT[i][ant] + dy /\ AntYT[i][ant] + dy < 720

\* all 300 markers of a run are drawn
C9_Witness == pc = "done" /\ i = 29 /\ ant = 10 /\ clipped = 0

\* the marker positions and channel values as the claims state them
ClaimAntX(j, a) == (324 * ((j + 3 * a) % 30)) \div 30 + 50
ClaimAntY(j, a) == (576 * ((j + 2 * a) % 30)) \div 30 + 50
ClaimRed(j, x) == (255 * x * (29 - j)) \div (405 * 29)
ClaimGreen(j, y) == (255 * y * j) \div (720 * 29)
ClaimBlue(j) == (255 * j) \div 29

\* (x, y) is a pixel of the frame and of the 5x5 square of marker a of frame j
InClaimMarker(j, a, x, y) ==
    \E dx \in (0 - 2)..2 : \E dy \in (0 - 2)..2 :
        /\ x = ClaimAntX(j, a) + dx
        /\ y = ClaimAntY(j, a) + dy
        /\ 0 <= x /\ x < 405 /\ 0 <= y /\ y < 720

InSomeClaimMarker(j, x, y) == \E a \in 0..9 : InClaimMarker(j, a, x, y)

\* C2: the alpha channel of a frame is 255 from the gradient on, through
\* every marker, and in the file written
C2_AlphaOpaque ==
    /\ pc \in {"ants", "save", "print"} => frame[4] = 255
    /\ pc = "print" => disk[ClaimName(i)][4] = 255

\* a marker pixel, written
C2_Witness ==
    pc = "print" /\ i = 17 /\ disk[ClaimName(17)] = <<255, 255, 0, 255>>

\* C3: a pixel of the square of a marker is (255,255,0,255) once that marker
\* is drawn, stays so while the later markers are drawn, and is so in the file
C3_MarkersYellow ==
    /\ pc = "ants" =>
          \A a \in 0..(ant - 1) :
              InClaimMarker(i, a, px, py) => frame = <<255, 255, 0, 255>>
    /\ pc = "save" =>
          (InSomeClaimMarker(i, px, py) => frame = <<255, 255, 0, 255>>)
    /\ pc = "print" =>
          (InSomeClaimMarker(i, px, py)
              => disk[ClaimName(i)] = <<255, 255, 0, 255>>)

\* the corner of the first marker of frame 11, written after nine more markers
C3_Witness ==
    /\ pc = "print"
    /\ i = 11
    /\ px = ClaimAntX(11, 0) - 2
    /\ py = ClaimAntY(11, 0) + 2
    /\ disk[ClaimName(11)] = <<255, 255, 0, 255>>

\* C4: in frame 0 a pixel outside every marker is written with green 0,
\* blue 0 and red floor(255*x/405), which is no less than the red the code
\* computes for the column to its left
C4_FrameZero ==
    (pc = "print" /\ i = 0 /\ ~InSomeClaimMarker(0, px, py)) =>
        /\ disk[ClaimName(0)][1] = (255 * px) \div 405
        /\ disk[ClaimName(0)][2] = 0
        /\ disk[ClaimName(0)][3] = 0
        /\ px > 0 => Red(0, px - 1) <= disk[ClaimName(0)][1]

C4_Witness ==
    /\ pc = "print"
    /\ i = 0
    /\ px = 404
    /\ ~InSomeClaimMarker(0, px, py)
    /\ disk[ClaimName(0)] = <<254, 0, 0, 255>>

\* C5 as stated: the blue channel of frame 29 is 255 at every pixel
C5_BlueEverywhere == (pc = "print" /\ i = 29) => disk[ClaimName(29)][3] = 255

\* C5 amended: the blue channel of frame 29 is 255 at every pixel outside
\* the markers and 0 at every pixel of a marker
C5_BlueOutsideMarkers ==
    (pc = "print" /\ i = 29) =>
        disk[ClaimName(29)][3] =
            IF InSomeClaimMarker(29, px, py) THEN 0 ELSE 255

C5_Witness ==
    /\ pc = "print"
    /\ i = 29
    /\ ~InSomeClaimMarker(29, px, py)
    /\ disk[ClaimName(29)][3] = 255

\* the channels the gradient has just stored
Stored == pc = "ants" /\ ant = 0

\* C10 as stated: the stored red, green and blue are floor(255*x*(29-i)/
\* (405*29)), floor(255*y*i/(720*29)) and floor(255*i/29), within 0..254,
\* 0..254 and 0..255
C10_StoredIsExactFloor ==
    Stored =>
        /\ frame[1] = ClaimRed(i, px) /\ ClaimRed(i, px) \in 0..254
        /\ frame[2] = ClaimGreen(i, py) /\ ClaimGreen(i, py) \in 0..254
        /\ frame[3] = ClaimBlue(i) /\ ClaimBlue(i) \in 0..255

\* C10 amended: the red and green the code computes (in floats) are the
\* floors above or one less, within 0..254, the blue is floor(255*i/29),
\* within 0..255, and each is stored as computed, not reduced modulo 256
C10_NoWrap ==
    Stored =>
        /\ Red(i, px) \in {ClaimRed(i, px) - 1, ClaimRed(i, px)}
        /\ Red(i, px) \in 0..254
        /\ frame[1] = Red(i, px)
        /\ Green(i, py) \in {ClaimGreen(i, py) - 1, ClaimGreen(i, py)}
        /\ Green(i, py) \in 0..254
        /\ frame[2] = Green(i, py)
        /\ Blue(i) = ClaimBlue(i)
        /\ Blue(i) \in 0..255
        /\ frame[3] = Blue(i)

\* a pixel where the float product falls just below the integer 85
C10_Witness ==
    Stored /\ i = 2 /\ px = 145 /\ frame[1] = 84 /\ ClaimRed(2, 145) = 85

====
